---- MODULE Spec2Model ----
(***************************************************************************)
(* Connect-Four engine of puissance4vrais (src/main.go, final revision,    *)
(* lines 712-1241): the single shared GameState, the HTTP handlers that    *)
(* mutate it, the board operations and the one-ply AI selector.            *)
(*                                                                         *)
(* Under Spec every handler runs to completion as one step.  Pure helpers  *)
(* take the game record g (the value of *currentGame) and return the       *)
(* record after the call, so that a helper which writes the board          *)
(* (wouldWin) threads its writes through exactly as the code does.         *)
(* ConcSpec splits handleMove at its time.Sleep, SnapshotSpec splits       *)
(* /api/ai-move at the board writes of wouldWin and adds the two read      *)
(* handlers, and MovesOnlySpec leaves /api/ai-move out.  checkForWinDraft  *)
(* is the win check of the two earlier revisions (lines 194-243).          *)
(***************************************************************************)
EXTENDS Integers, Sequences, FiniteSets, TLC

VARIABLES Board, CurrentPlayer, Mode, GameOver, Winner, StatusMessage,
          lastOp, moves, inflight, probe, snapshot

vars == <<Board, CurrentPlayer, Mode, GameOver, Winner, StatusMessage,
          lastOp, moves, inflight, probe, snapshot>>

----------------------------------------------------------------------------
(* Program constants, src/main.go:728-741 *)
BOARD_ROWS == 6
BOARD_COLS == 7
WINNING_COUNT == 4
PLAYER_1 == 1
PLAYER_2 == 2
PLAYER_DRAW == 3
CELL_EMPTY == 0
GAME_MODE_TWO_PLAYER == "twoPlayer"
GAME_MODE_AI == "ai"

(* Bound of the exploration: accepted move requests explored after a       *)
(* starting position or a new game.                                        *)
MaxMoves == 2

(* Bound of the exploration: requests served while one handleMove request  *)
(* is asleep before its automated reply.                                   *)
MaxOverlap == 1

Rows == 0 .. (BOARD_ROWS - 1)
Cols == 0 .. (BOARD_COLS - 1)
Cells == Rows \X Cols

(* Column indices a client can send: every legal one and one on each side. *)
ColInputs == (0 - 1) .. BOARD_COLS
(* Mode strings a client can send: the two recognized ones, the empty      *)
(* string (an absent form value) and one unrecognized value.               *)
ModeInputs == {GAME_MODE_TWO_PLAYER, GAME_MODE_AI, "", "solo"}
(* Values rand.Intn can return for at most BOARD_COLS valid moves.         *)
RandInputs == 0 .. (BOARD_COLS - 1)

EmptyBoard == [r \in Rows |-> [c \in Cols |-> CELL_EMPTY]]

(* The value of *currentGame as one record. *)
Game == [Board |-> Board, CurrentPlayer |-> CurrentPlayer, Mode |-> Mode,
         GameOver |-> GameOver, Winner |-> Winner,
         StatusMessage |-> StatusMessage]

(* With(v, F) is F(v): it names the value of a local variable of the code  *)
(* (`row := placePiece(...)`), computed once where the code assigns it.    *)
With(v, F(_)) == F(v)

----------------------------------------------------------------------------
(* Board engine *)

(* Variant of placeScan: the loop runs from row 0 downward. *)
placeScanFromTop(board, col, row) ==
    IF \A r \in Rows : board[r][col] # CELL_EMPTY THEN 0 - 1
    ELSE CHOOSE r \in Rows :
           /\ board[r][col] = CELL_EMPTY
           /\ \A q \in Rows : board[q][col] = CELL_EMPTY => r <= q

(* The loop of placePiece: first empty row from `row` upward, or -1. *)
RECURSIVE placeScan(_, _, _)
placeScan(board, col, row) ==
    IF row < 0 THEN 0 - 1
    ELSE IF board[row][col] = CELL_EMPTY THEN row
    ELSE placeScan(board, col, row - 1)

(* Variant of placePiece: a full column takes the piece in its top cell. *)
placePieceOverwrite(g, col, player) ==
    With(placeScan(g.Board, col, BOARD_ROWS - 1), LAMBDA row :
      IF row = 0 - 1
      THEN [g |-> [g EXCEPT !.Board[0][col] = player], row |-> 0]
      ELSE [g |-> [g EXCEPT !.Board[row][col] = player], row |-> row])

(* Variant of placePiece: the piece goes one cell above the first empty    *)
(* cell found, when there is one above.                                    *)
placePieceFloats(g, col, player) ==
    With(placeScan(g.Board, col, BOARD_ROWS - 1), LAMBDA row :
      IF row = 0 - 1 THEN [g |-> g, row |-> 0 - 1]
      ELSE IF row = 0 THEN [g |-> [g EXCEPT !.Board[0][col] = player],
                            row |-> 0]
      ELSE [g |-> [g EXCEPT !.Board[row - 1][col] = player],
            row |-> row - 1])

(* Variant of placePiece: the piece goes to the bottom cell of a column    *)
(* with room, empty or not.                                                *)
placePieceOnBottom(g, col, player) ==
    With(placeScan(g.Board, col, BOARD_ROWS - 1), LAMBDA row :
      IF row = 0 - 1 THEN [g |-> g, row |-> 0 - 1]
      ELSE [g |-> [g EXCEPT !.Board[BOARD_ROWS - 1][col] = player],
            row |-> BOARD_ROWS - 1])

placePiece(g, col, player) ==
    With(placeScan(g.Board, col, BOARD_ROWS - 1), LAMBDA row :
      IF row = 0 - 1 THEN [g |-> g, row |-> 0 - 1]
      ELSE [g |-> [g EXCEPT !.Board[row][col] = player], row |-> row])

(* One counting loop of checkDirection, starting at (i, j). *)
RECURSIVE countRun(_, _, _, _, _, _)
countRun(board, i, j, dRow, dCol, player) ==
    IF i >= 0 /\ i < BOARD_ROWS /\ j >= 0 /\ j < BOARD_COLS
       /\ board[i][j] = player
    THEN 1 + countRun(board, i + dRow, j + dCol, dRow, dCol, player)
    ELSE 0

(* Variant of checkDirection: the second loop (the other sense) is missing. *)
checkDirectionOneWay(board, row, col, dRow, dCol, player) ==
    1 + countRun(board, row + dRow, col + dCol, dRow, dCol, player)

checkDirection(board, row, col, dRow, dCol, player) ==
    1 + countRun(board, row + dRow, col + dCol, dRow, dCol, player)
      + countRun(board, row - dRow, col - dCol, 0 - dRow, 0 - dCol, player)

(* Variant of checkForWin: a run of WINNING_COUNT - 1 is enough. *)
checkForWinRunOfThree(board, row, col) ==
    LET player == board[row][col] IN
    IF checkDirection(board, row, col, 0, 1, player) >= WINNING_COUNT - 1
    THEN player
    ELSE IF checkDirection(board, row, col, 1, 0, player) >= WINNING_COUNT - 1
    THEN player
    ELSE IF checkDirection(board, row, col, 1, 1, player) >= WINNING_COUNT - 1
    THEN player
    ELSE IF checkDirection(board, row, col, 0 - 1, 1, player)
              >= WINNING_COUNT - 1
    THEN player
    ELSE 0

(* Variant of checkForWin: the second diagonal check is missing. *)
checkForWinOneDiagonal(board, row, col) ==
    LET player == board[row][col] IN
    IF checkDirection(board, row, col, 0, 1, player) >= WINNING_COUNT
    THEN player
    ELSE IF checkDirection(board, row, col, 1, 0, player) >= WINNING_COUNT
    THEN player
    ELSE IF checkDirection(board, row, col, 1, 1, player) >= WINNING_COUNT
    THEN player
    ELSE 0

(* Variant of checkForWin: the vertical check is missing. *)
checkForWinNoVertical(board, row, col) ==
    LET player == board[row][col] IN
    IF checkDirection(board, row, col, 0, 1, player) >= WINNING_COUNT
    THEN player
    ELSE IF checkDirection(board, row, col, 1, 1, player) >= WINNING_COUNT
    THEN player
    ELSE IF checkDirection(board, row, col, 0 - 1, 1, player) >= WINNING_COUNT
    THEN player
    ELSE 0

checkForWin(board, row, col) ==
    LET player == board[row][col] IN
    IF checkDirection(board, row, col, 0, 1, player) >= WINNING_COUNT
    THEN player
    ELSE IF checkDirection(board, row, col, 1, 0, player) >= WINNING_COUNT
    THEN player
    ELSE IF checkDirection(board, row, col, 1, 1, player) >= WINNING_COUNT
    THEN player
    ELSE IF checkDirection(board, row, col, 0 - 1, 1, player) >= WINNING_COUNT
    THEN player
    ELSE 0

(* Variant of the drafts' checkForWin: the vertical run is counted upward  *)
(* from the given cell.                                                    *)
checkForWinDraftUpward(board, row, col) ==
    LET player == board[row][col] IN
    IF 1 + countRun(board, row, col - 1, 0, 0 - 1, player)
         + countRun(board, row, col + 1, 0, 1, player) >= 4
    THEN player
    ELSE IF 1 + countRun(board, row - 1, col, 0 - 1, 0, player) >= 4
    THEN player
    ELSE IF 1 + countRun(board, row - 1, col - 1, 0 - 1, 0 - 1, player)
              + countRun(board, row + 1, col + 1, 1, 1, player) >= 4
    THEN player
    ELSE IF 1 + countRun(board, row + 1, col - 1, 1, 0 - 1, player)
              + countRun(board, row - 1, col + 1, 0 - 1, 1, player) >= 4
    THEN player
    ELSE 0

(* checkForWin as the two earlier drafts of the program have it, with the  *)
(* loops written out per direction: both senses for the row and the two    *)
(* diagonals, and for the column only the cells below the given one        *)
(* (i := row + 1; i < 6; i++).                                             *)
checkForWinDraft(board, row, col) ==
    LET player == board[row][col] IN
    IF 1 + countRun(board, row, col - 1, 0, 0 - 1, player)
         + countRun(board, row, col + 1, 0, 1, player) >= 4
    THEN player
    ELSE IF 1 + countRun(board, row + 1, col, 1, 0, player) >= 4
    THEN player
    ELSE IF 1 + countRun(board, row - 1, col - 1, 0 - 1, 0 - 1, player)
              + countRun(board, row + 1, col + 1, 1, 1, player) >= 4
    THEN player
    ELSE IF 1 + countRun(board, row + 1, col - 1, 1, 0 - 1, player)
              + countRun(board, row - 1, col + 1, 0 - 1, 1, player) >= 4
    THEN player
    ELSE 0

(* Variant of isBoardFull: one non-empty cell in the top row is enough. *)
isBoardFullAnyColumn(board) == \E col \in Cols : board[0][col] # CELL_EMPTY

isBoardFull(board) == \A col \in Cols : board[0][col] # CELL_EMPTY

getWinnerMessage(winner) ==
    CASE winner = PLAYER_1 -> "Le Joueur Rouge (Joueur 1) gagne !"
      [] winner = PLAYER_2 -> "Le Joueur Jaune (Joueur 2) gagne !"
      [] winner = PLAYER_DRAW -> "Match nul ! Egalite parfaite !"
      [] OTHER -> ""

(* Variant of checkGameEnd: the full board is not tested. *)
checkGameEndNoDraw(g, row, col) ==
    With(checkForWin(g.Board, row, col), LAMBDA winner :
      IF winner > 0
      THEN [g EXCEPT !.GameOver = TRUE, !.Winner = winner,
                     !.StatusMessage = getWinnerMessage(winner)]
      ELSE IF g.Mode = GAME_MODE_TWO_PLAYER
              \/ (g.Mode = GAME_MODE_AI /\ g.CurrentPlayer = PLAYER_1)
      THEN [g EXCEPT !.CurrentPlayer = PLAYER_2 + PLAYER_1 - g.CurrentPlayer,
                     !.StatusMessage = ""]
      ELSE [g EXCEPT !.StatusMessage = ""])

(* Variant of checkGameEnd: a full board ends the game but Winner is left  *)
(* as it is.                                                               *)
checkGameEndDrawNoWinner(g, row, col) ==
    With(checkForWin(g.Board, row, col), LAMBDA winner :
      IF winner > 0
      THEN [g EXCEPT !.GameOver = TRUE, !.Winner = winner,
                     !.StatusMessage = getWinnerMessage(winner)]
      ELSE IF isBoardFull(g.Board)
      THEN [g EXCEPT !.GameOver = TRUE, !.StatusMessage = "Match nul !"]
      ELSE IF g.Mode = GAME_MODE_TWO_PLAYER
              \/ (g.Mode = GAME_MODE_AI /\ g.CurrentPlayer = PLAYER_1)
      THEN [g EXCEPT !.CurrentPlayer = PLAYER_2 + PLAYER_1 - g.CurrentPlayer,
                     !.StatusMessage = ""]
      ELSE [g EXCEPT !.StatusMessage = ""])

(* Variant of checkGameEnd: Winner is taken from CurrentPlayer. *)
checkGameEndWinnerIsCurrent(g, row, col) ==
    With(checkForWin(g.Board, row, col), LAMBDA winner :
      IF winner > 0
      THEN [g EXCEPT !.GameOver = TRUE, !.Winner = g.CurrentPlayer,
                     !.StatusMessage = getWinnerMessage(g.CurrentPlayer)]
      ELSE IF isBoardFull(g.Board)
      THEN [g EXCEPT !.GameOver = TRUE, !.Winner = PLAYER_DRAW,
                     !.StatusMessage = "Match nul !"]
      ELSE IF g.Mode = GAME_MODE_TWO_PLAYER
              \/ (g.Mode = GAME_MODE_AI /\ g.CurrentPlayer = PLAYER_1)
      THEN [g EXCEPT !.CurrentPlayer = PLAYER_2 + PLAYER_1 - g.CurrentPlayer,
                     !.StatusMessage = ""]
      ELSE [g EXCEPT !.StatusMessage = ""])

(* Variant of checkGameEnd: the full board is tested before the winner. *)
checkGameEndDrawFirst(g, row, col) ==
    With(checkForWin(g.Board, row, col), LAMBDA winner :
      IF isBoardFull(g.Board)
      THEN [g EXCEPT !.GameOver = TRUE, !.Winner = PLAYER_DRAW,
                     !.StatusMessage = "Match nul !"]
      ELSE IF winner > 0
      THEN [g EXCEPT !.GameOver = TRUE, !.Winner = winner,
                     !.StatusMessage = getWinnerMessage(winner)]
      ELSE IF g.Mode = GAME_MODE_TWO_PLAYER
              \/ (g.Mode = GAME_MODE_AI /\ g.CurrentPlayer = PLAYER_1)
      THEN [g EXCEPT !.CurrentPlayer = PLAYER_2 + PLAYER_1 - g.CurrentPlayer,
                     !.StatusMessage = ""]
      ELSE [g EXCEPT !.StatusMessage = ""])

(* Variant of checkGameEnd: the turn passes only when CurrentPlayer is      *)
(* First, whatever the mode.                                               *)
checkGameEndFlipFirstOnly(g, row, col) ==
    With(checkForWin(g.Board, row, col), LAMBDA winner :
      IF winner > 0
      THEN [g EXCEPT !.GameOver = TRUE, !.Winner = winner,
                     !.StatusMessage = getWinnerMessage(winner)]
      ELSE IF isBoardFull(g.Board)
      THEN [g EXCEPT !.GameOver = TRUE, !.Winner = PLAYER_DRAW,
                     !.StatusMessage = "Match nul !"]
      ELSE IF g.CurrentPlayer = PLAYER_1
      THEN [g EXCEPT !.CurrentPlayer = PLAYER_2, !.StatusMessage = ""]
      ELSE [g EXCEPT !.StatusMessage = ""])

checkGameEnd(g, row, col) ==
    With(checkForWin(g.Board, row, col), LAMBDA winner :
      IF winner > 0
      THEN [g EXCEPT !.GameOver = TRUE, !.Winner = winner,
                     !.StatusMessage = getWinnerMessage(winner)]
      ELSE IF isBoardFull(g.Board)
      THEN [g EXCEPT !.GameOver = TRUE, !.Winner = PLAYER_DRAW,
                     !.StatusMessage = "Match nul !"]
      ELSE IF g.Mode = GAME_MODE_TWO_PLAYER
              \/ (g.Mode = GAME_MODE_AI /\ g.CurrentPlayer = PLAYER_1)
      THEN [g EXCEPT !.CurrentPlayer = PLAYER_2 + PLAYER_1 - g.CurrentPlayer,
                     !.StatusMessage = ""]
      ELSE [g EXCEPT !.StatusMessage = ""])

(* Variant of startNewGame: an unrecognized mode becomes the two-player    *)
(* mode.                                                                   *)
startNewGameDefaultMode(mode) ==
    [Board |-> EmptyBoard, CurrentPlayer |-> PLAYER_1,
     Mode |-> IF mode \in {GAME_MODE_TWO_PLAYER, GAME_MODE_AI} THEN mode
              ELSE GAME_MODE_TWO_PLAYER,
     GameOver |-> FALSE, Winner |-> 0, StatusMessage |-> ""]

startNewGame(mode) ==
    [Board |-> EmptyBoard, CurrentPlayer |-> PLAYER_1, Mode |-> mode,
     GameOver |-> FALSE, Winner |-> 0, StatusMessage |-> ""]

initializeGame == startNewGame(GAME_MODE_TWO_PLAYER)

----------------------------------------------------------------------------
(* AI selector.  Each helper returns the game record after the call next   *)
(* to its result, because wouldWin writes the board and writes it back.    *)

isValidMove(board, col) ==
    col >= 0 /\ col < BOARD_COLS /\ board[0][col] = CELL_EMPTY

getValidMoves(board) ==
    SelectSeq([i \in 1 .. BOARD_COLS |-> i - 1],
              LAMBDA col : isValidMove(board, col))

(* Variant of findRandomValidMove: a column is drawn among all columns,    *)
(* with room or not.                                                       *)
findRandomValidMoveAnyColumn(board, rnd) == rnd

(* rnd stands for the value rand.Intn(len(moves)) returns: the action      *)
(* draws it, and it is reduced to the range [0, len(moves)).               *)
findRandomValidMove(board, rnd) ==
    With(getValidMoves(board), LAMBDA validMoves :
      IF Len(validMoves) = 0 THEN 0
      ELSE validMoves[(rnd % Len(validMoves)) + 1])

(* The loop of wouldWin: first empty row from `r` upward, or -1. *)
RECURSIVE wouldWinScan(_, _, _)
wouldWinScan(board, col, r) ==
    IF r < 0 THEN 0 - 1
    ELSE IF board[r][col] = CELL_EMPTY THEN r
    ELSE wouldWinScan(board, col, r - 1)

(* Variant of wouldWin: it returns true before the cell is written back. *)
wouldWinLeavesWinner(g, col, player) ==
    With(wouldWinScan(g.Board, col, BOARD_ROWS - 1), LAMBDA row :
      IF row = 0 - 1 THEN [g |-> g, win |-> FALSE]
      ELSE With([g EXCEPT !.Board[row][col] = player], LAMBDA probed :
             With(checkForWin(probed.Board, row, col), LAMBDA winner :
               IF winner = player THEN [g |-> probed, win |-> TRUE]
               ELSE [g |-> [probed EXCEPT !.Board[row][col] = CELL_EMPTY],
                     win |-> FALSE])))

wouldWin(g, col, player) ==
    With(wouldWinScan(g.Board, col, BOARD_ROWS - 1), LAMBDA row :
      IF row = 0 - 1 THEN [g |-> g, win |-> FALSE]
      ELSE With([g EXCEPT !.Board[row][col] = player], LAMBDA probed :
             With(checkForWin(probed.Board, row, col), LAMBDA winner :
               [g |-> [probed EXCEPT !.Board[row][col] = CELL_EMPTY],
                win |-> (winner = player)])))

(* The range loop of findWinningMove over the slice validMoves, from its   *)
(* i-th element on.                                                        *)
RECURSIVE findWinningScan(_, _, _, _)
findWinningScan(g, validMoves, i, player) ==
    IF i > Len(validMoves) THEN [g |-> g, col |-> 0 - 1]
    ELSE With(wouldWin(g, validMoves[i], player), LAMBDA w :
           IF w.win THEN [g |-> w.g, col |-> validMoves[i]]
           ELSE findWinningScan(w.g, validMoves, i + 1, player))

findWinningMove(g, player) ==
    findWinningScan(g, getValidMoves(g.Board), 1, player)

(* Variant of getBestMove: the opponent's winning column is looked for     *)
(* before the automated side's own.                                        *)
getBestMoveBlockFirst(g, rnd) ==
    With(findWinningMove(g, PLAYER_1), LAMBDA opp :
      IF opp.col # 0 - 1 THEN opp
      ELSE With(findWinningMove(opp.g, PLAYER_2), LAMBDA own :
             IF own.col # 0 - 1 THEN own
             ELSE LET centerCol == 3 IN
                  IF isValidMove(own.g.Board, centerCol)
                  THEN [g |-> own.g, col |-> centerCol]
                  ELSE [g |-> own.g,
                        col |-> findRandomValidMove(own.g.Board, rnd)]))

(* Variant of getBestMove: the center column is tried before the           *)
(* opponent's winning column.                                              *)
getBestMoveCenterFirst(g, rnd) ==
    With(findWinningMove(g, PLAYER_2), LAMBDA own :
      IF own.col # 0 - 1 THEN own
      ELSE LET centerCol == 3 IN
           IF isValidMove(own.g.Board, centerCol)
           THEN [g |-> own.g, col |-> centerCol]
           ELSE With(findWinningMove(own.g, PLAYER_1), LAMBDA opp :
                  IF opp.col # 0 - 1 THEN opp
                  ELSE [g |-> opp.g,
                        col |-> findRandomValidMove(opp.g.Board, rnd)]))

(* Variant of getBestMove: the center column is not preferred. *)
getBestMoveNoCenter(g, rnd) ==
    With(findWinningMove(g, PLAYER_2), LAMBDA own :
      IF own.col # 0 - 1 THEN own
      ELSE With(findWinningMove(own.g, PLAYER_1), LAMBDA opp :
             IF opp.col # 0 - 1 THEN opp
             ELSE [g |-> opp.g,
                   col |-> findRandomValidMove(opp.g.Board, rnd)]))

(* Variant of getBestMove: when Second has no winning column the column   *)
(* is drawn at random among the valid ones.                                *)
getBestMoveWinOrRandom(g, rnd) ==
    With(findWinningMove(g, PLAYER_2), LAMBDA own :
      IF own.col # 0 - 1 THEN own
      ELSE [g |-> own.g, col |-> findRandomValidMove(own.g.Board, rnd)])

getBestMove(g, rnd) ==
    With(findWinningMove(g, PLAYER_2), LAMBDA own :
      IF own.col # 0 - 1 THEN own
      ELSE With(findWinningMove(own.g, PLAYER_1), LAMBDA opp :
             IF opp.col # 0 - 1 THEN opp
             ELSE LET centerCol == 3 IN
                  IF isValidMove(opp.g.Board, centerCol)
                  THEN [g |-> opp.g, col |-> centerCol]
                  ELSE [g |-> opp.g,
                        col |-> findRandomValidMove(opp.g.Board, rnd)]))

----------------------------------------------------------------------------
(* Observations kept next to the game state.  lastOp describes the latest  *)
(* request: its handler, its inputs, the row the handler's own placePiece  *)
(* call returned (NotReached when the handler returned before that call,   *)
(* Panicked when the call did not return: an index out of range stops the  *)
(* handler there, and the server recovers the panic and goes on), the      *)
(* pieces it placed, in order, each with the CurrentPlayer read just       *)
(* before the placement, and what the call of getBestMove it made (if any) *)
(* left changed in the game record.                                        *)

NotReached == 0 - 2
Panicked == 0 - 3
NoCol == 0 - 9

Placement(side, row, col, cp) ==
    [side |-> side, row |-> row, col |-> col, cp |-> cp]

NoSel == [called |-> FALSE, cells |-> {}, fields |-> {}]

SelDiff(before, after) ==
    [called |-> TRUE,
     cells |-> {rc \in Cells :
                  before.Board[rc[1]][rc[2]] # after.Board[rc[1]][rc[2]]},
     fields |-> {f \in {"CurrentPlayer", "Mode", "GameOver", "Winner",
                        "StatusMessage"} : before[f] # after[f]}]

----------------------------------------------------------------------------
(* Handlers, as functions from the game record and the request's inputs to *)
(* the game record when the handler returns, with the observations.        *)

(* Variant of aiMakeMove: the turn is not handed back to PLAYER_1. *)
aiMakeMoveNoHandBack(g, rnd) ==
    With(getBestMove(g, rnd), LAMBDA best :
    With(placePiece(best.g, best.col, PLAYER_2), LAMBDA p :
      IF p.row = 0 - 1
      THEN [g |-> p.g, placed |-> <<>>, sel |-> SelDiff(g, best.g)]
      ELSE [g |-> checkGameEnd(p.g, p.row, best.col),
            placed |-> <<Placement(PLAYER_2, p.row, best.col,
                                   best.g.CurrentPlayer)>>,
            sel |-> SelDiff(g, best.g)]))

(* Variant of aiMakeMove: the `return` after row == -1 is missing, so the  *)
(* turn is handed back to PLAYER_1 although nothing was placed.            *)
aiMakeMoveNoEarlyReturn(g, rnd) ==
    With(getBestMove(g, rnd), LAMBDA best :
    With(placePiece(best.g, best.col, PLAYER_2), LAMBDA p :
      IF p.row = 0 - 1
      THEN [g |-> [p.g EXCEPT !.CurrentPlayer = PLAYER_1,
                              !.StatusMessage = ""],
            placed |-> <<>>, sel |-> SelDiff(g, best.g)]
      ELSE With(checkGameEnd(p.g, p.row, best.col), LAMBDA e :
             [g |-> IF ~e.GameOver
                    THEN [e EXCEPT !.CurrentPlayer = PLAYER_1,
                                   !.StatusMessage = ""]
                    ELSE e,
              placed |-> <<Placement(PLAYER_2, p.row, best.col,
                                     best.g.CurrentPlayer)>>,
              sel |-> SelDiff(g, best.g)])))

aiMakeMove(g, rnd) ==
    With(getBestMove(g, rnd), LAMBDA best :
    With(placePiece(best.g, best.col, PLAYER_2), LAMBDA p :
      IF p.row = 0 - 1
      THEN [g |-> p.g, placed |-> <<>>, sel |-> SelDiff(g, best.g)]
      ELSE With(checkGameEnd(p.g, p.row, best.col), LAMBDA e :
             [g |-> IF ~e.GameOver
                    THEN [e EXCEPT !.CurrentPlayer = PLAYER_1,
                                   !.StatusMessage = ""]
                    ELSE e,
              placed |-> <<Placement(PLAYER_2, p.row, best.col,
                                     best.g.CurrentPlayer)>>,
              sel |-> SelDiff(g, best.g)])))

(* Variant of handleMove: in the AI mode the automated reply follows every *)
(* accepted move, whether it ended the game or not, and does not return    *)
(* early on a game that is over.                                           *)
handleMoveAlwaysReplies(g, col, rnd) ==
    IF col < 0 \/ col >= BOARD_COLS
    THEN [g |-> [g EXCEPT !.StatusMessage = "Colonne invalide"],
          row |-> NotReached, placed |-> <<>>, sel |-> NoSel]
    ELSE With(placePiece(g, col, g.CurrentPlayer), LAMBDA p :
      IF p.row = 0 - 1
      THEN [g |-> [p.g EXCEPT !.StatusMessage = "Colonne pleine !"],
            row |-> 0 - 1, placed |-> <<>>, sel |-> NoSel]
      ELSE With(checkGameEnd(p.g, p.row, col), LAMBDA e :
             LET pl == <<Placement(g.CurrentPlayer, p.row, col,
                                   g.CurrentPlayer)>>
             IN IF e.Mode = GAME_MODE_AI
                THEN With(aiMakeMoveNoEarlyReturn(e, rnd), LAMBDA a :
                       [g |-> a.g, row |-> p.row,
                        placed |-> pl \o a.placed, sel |-> a.sel])
                ELSE [g |-> e, row |-> p.row, placed |-> pl,
                      sel |-> NoSel]))

(* col stands for the parsed form value; strconv.Atoi failing takes the    *)
(* same branch as a column outside [0, BOARD_COLS).                        *)
handleMove(g, col, rnd) ==
    IF col < 0 \/ col >= BOARD_COLS
    THEN [g |-> [g EXCEPT !.StatusMessage = "Colonne invalide"],
          row |-> NotReached, placed |-> <<>>, sel |-> NoSel]
    ELSE With(placePiece(g, col, g.CurrentPlayer), LAMBDA p :
      IF p.row = 0 - 1
      THEN [g |-> [p.g EXCEPT !.StatusMessage = "Colonne pleine !"],
            row |-> 0 - 1, placed |-> <<>>, sel |-> NoSel]
      ELSE With(checkGameEnd(p.g, p.row, col), LAMBDA e :
             LET pl == <<Placement(g.CurrentPlayer, p.row, col,
                                   g.CurrentPlayer)>>
             IN IF ~e.GameOver /\ e.Mode = GAME_MODE_AI
                   /\ e.CurrentPlayer = PLAYER_2
                THEN With(aiMakeMove(e, rnd), LAMBDA a :
                       [g |-> a.g, row |-> p.row,
                        placed |-> pl \o a.placed, sel |-> a.sel])
                ELSE [g |-> e, row |-> p.row, placed |-> pl,
                      sel |-> NoSel]))

(* handleMove up to the condition of its automated reply: `sleeps` tells   *)
(* whether the handler goes on to time.Sleep and aiMakeMove.               *)
handleMoveUntilSleep(g, col) ==
    IF col < 0 \/ col >= BOARD_COLS
    THEN [g |-> [g EXCEPT !.StatusMessage = "Colonne invalide"],
          row |-> NotReached, placed |-> <<>>, sleeps |-> FALSE]
    ELSE With(placePiece(g, col, g.CurrentPlayer), LAMBDA p :
      IF p.row = 0 - 1
      THEN [g |-> [p.g EXCEPT !.StatusMessage = "Colonne pleine !"],
            row |-> 0 - 1, placed |-> <<>>, sleeps |-> FALSE]
      ELSE With(checkGameEnd(p.g, p.row, col), LAMBDA e :
             [g |-> e, row |-> p.row,
              placed |-> <<Placement(g.CurrentPlayer, p.row, col,
                                     g.CurrentPlayer)>>,
              sleeps |-> (~e.GameOver /\ e.Mode = GAME_MODE_AI
                          /\ e.CurrentPlayer = PLAYER_2)]))

(* The JSON handler does not validate req.Col: an index outside the array  *)
(* makes placePiece panic on its first read of Board[row][col]; net/http   *)
(* recovers the panic and the game record is as it was.                    *)
handleMoveAPI(g, col) ==
    IF col < 0 \/ col >= BOARD_COLS
    THEN [g |-> g, row |-> Panicked, placed |-> <<>>, sel |-> NoSel]
    ELSE With(placePiece(g, col, g.CurrentPlayer), LAMBDA p :
      IF p.row = 0 - 1
      THEN [g |-> p.g, row |-> 0 - 1, placed |-> <<>>, sel |-> NoSel]
      ELSE [g |-> checkGameEnd(p.g, p.row, col), row |-> p.row,
            placed |-> <<Placement(g.CurrentPlayer, p.row, col,
                                   g.CurrentPlayer)>>,
            sel |-> NoSel])

aiMoveAPI(g, rnd) ==
    With(getBestMove(g, rnd), LAMBDA best :
    With(placePiece(best.g, best.col, PLAYER_2), LAMBDA p :
      IF p.row = 0 - 1
      THEN [g |-> p.g, row |-> 0 - 1, placed |-> <<>>,
            sel |-> SelDiff(g, best.g)]
      ELSE [g |-> checkGameEnd(p.g, p.row, best.col), row |-> p.row,
            placed |-> <<Placement(PLAYER_2, p.row, best.col,
                                   best.g.CurrentPlayer)>>,
            sel |-> SelDiff(g, best.g)]))

handleModeChange(g, mode) == startNewGame(mode)

(* Variant of handleNewGame: the mode value is passed on as it is, empty   *)
(* or not.                                                                 *)
handleNewGameNoFallback(g, mode) == startNewGame(mode)

handleNewGame(g, mode) ==
    IF mode = "" THEN startNewGame(g.Mode) ELSE startNewGame(mode)

newGameAPI(g, mode) == startNewGame(mode)

----------------------------------------------------------------------------
(* Starting positions.  The program starts in initializeGame; the other    *)
(* starting positions are reached from it by a new-game request with the   *)
(* given mode followed by the listed move requests, replayed through the   *)
(* handlers above (rand.Intn returning 0 where the AI falls back on it);   *)
(* the replay stops at a request the handler rejects.                      *)

RECURSIVE Replay(_, _, _, _)
Replay(g, handler, cols, i) ==
    IF i > Len(cols) THEN g
    ELSE With(IF handler = "handleMove" THEN handleMove(g, cols[i], 0)
              ELSE handleMoveAPI(g, cols[i]),
              LAMBDA r : IF r.row >= 0
                         THEN Replay(r.g, handler, cols, i + 1)
                         ELSE g)

(* Two-player: First has three pieces on top of two in column 0, Second   *)
(* has the three bottom pieces of column 6                                 *)
TopColumnGame ==
    [mode |-> GAME_MODE_TWO_PLAYER, handler |-> "handleMoveAPI",
     cols |-> <<0, 0, 0, 6, 0, 6, 0, 6>>]

(* Two-player: First holds the bottom row and Second the row above it,     *)
(* both but for column 3                                                   *)
BottomRowGame ==
    [mode |-> GAME_MODE_TWO_PLAYER, handler |-> "handleMoveAPI",
     cols |-> <<0, 0, 1, 1, 2, 2, 6, 6, 5, 5, 4, 4>>]

(* Two-player: both bottom-corner diagonals are two moves away *)
DiagonalGame ==
    [mode |-> GAME_MODE_TWO_PLAYER, handler |-> "handleMoveAPI",
     cols |-> <<3, 0, 1, 6, 3, 1, 2, 4, 4, 4, 3, 3>>]

(* Two-player: 40 moves without a run of 4; the top cells of columns 0 and *)
(* 1 are left                                                              *)
NearDrawGame ==
    [mode |-> GAME_MODE_TWO_PLAYER, handler |-> "handleMoveAPI",
     cols |-> <<0, 3, 6, 3, 2, 3, 6, 1, 3, 5, 4, 6, 2, 2, 0, 2, 4, 6, 2, 4,
                5, 3, 5, 3, 6, 2, 6, 0, 5, 0, 0, 1, 1, 5, 1, 4, 4, 1, 4, 5>>]

(* Two-player: the same game mirrored left to right; the top cells of     *)
(* columns 6 and 5 are left                                                *)
NearDrawMirrorGame ==
    [mode |-> GAME_MODE_TWO_PLAYER, handler |-> "handleMoveAPI",
     cols |-> [i \in 1 .. Len(NearDrawGame.cols) |->
                 BOARD_COLS - 1 - NearDrawGame.cols[i]]]

(* Against the AI through handleMove: 19 human moves and 19 replies, no    *)
(* run of 4; four cells are left and column 3 is full                      *)
NearDrawAIGame ==
    [mode |-> GAME_MODE_AI, handler |-> "handleMove",
     cols |-> <<4, 1, 6, 3, 1, 1, 0, 2, 2, 1, 0, 1, 2, 6, 5, 4, 6, 4, 5>>]

(* Two-player: First and Second each hold columns 2 and 3 of a row; one    *)
(* more First piece in column 1 or 4 opens the bottom row at both ends     *)
OpenThreeGame ==
    [mode |-> GAME_MODE_TWO_PLAYER, handler |-> "handleMoveAPI",
     cols |-> <<2, 2, 3, 3>>]

(* Two-player through handleMove: First has three pieces in column 3 and   *)
(* Second two in column 4                                                  *)
ColumnThreeGame ==
    [mode |-> GAME_MODE_TWO_PLAYER, handler |-> "handleMove",
     cols |-> <<3, 4, 3, 4, 3>>]

(* Two-player: the 40 moves of NearDrawGame and one more in column 0; the  *)
(* top cell of column 1 is left                                            *)
LastCellGame ==
    [mode |-> GAME_MODE_TWO_PLAYER, handler |-> "handleMoveAPI",
     cols |-> NearDrawGame.cols \o <<0>>]

(* Against the AI through handleMove: First holds columns 2, 3 and 4 of    *)
(* the bottom row, the replies went to column 3 twice and then to column   *)
(* 1, the lower of the two columns where First would win                   *)
AIOpenThreeGame ==
    [mode |-> GAME_MODE_AI, handler |-> "handleMove",
     cols |-> <<3, 2, 4>>]

StartGames ==
    {TopColumnGame, BottomRowGame, DiagonalGame, NearDrawGame,
     NearDrawMirrorGame, NearDrawAIGame, OpenThreeGame, ColumnThreeGame,
     LastCellGame, AIOpenThreeGame}

(* Against the AI: the game of NearDrawAIGame followed by a move of First  *)
(* in column 6 through the JSON handler, which makes no automated reply:   *)
(* three cells are left and Second is CurrentPlayer                        *)
NearDrawAIThenAPIGame ==
    handleMoveAPI(Replay(startNewGame(NearDrawAIGame.mode),
                         NearDrawAIGame.handler, NearDrawAIGame.cols, 1),
                  BOARD_COLS - 1).g

StartPositions ==
    {initializeGame, NearDrawAIThenAPIGame}
    \cup {Replay(startNewGame(s.mode), s.handler, s.cols, 1) : s \in StartGames}

----------------------------------------------------------------------------
(* State machine *)

SetGame(g) ==
    /\ Board' = g.Board
    /\ CurrentPlayer' = g.CurrentPlayer
    /\ Mode' = g.Mode
    /\ GameOver' = g.GameOver
    /\ Winner' = g.Winner
    /\ StatusMessage' = g.StatusMessage

Op(name, col, mode, row, placed, sel) ==
    [op |-> name, col |-> col, mode |-> mode, row |-> row,
     placed |-> placed, sel |-> sel]

Accepted(placed) == IF Len(placed) > 0 THEN 1 ELSE 0

(* inflight is the handleMove request that has run its placement and its   *)
(* checkGameEnd and is in time.Sleep before aiMakeMove (src/main.go:902),  *)
(* with the row and the piece it placed and the number of other requests   *)
(* served since it went to sleep; Idle when there is none.                 *)
Idle == [active |-> FALSE, col |-> NoCol, row |-> NotReached, placed |-> <<>>,
         others |-> 0]

(* inflight after another request has been served. *)
Overlapped ==
    IF inflight.active THEN [inflight EXCEPT !.others = @ + 1] ELSE inflight

(* probe is the /api/ai-move request that is inside getBestMove: the      *)
(* calls of wouldWin it makes, in order, the index of the next one, and    *)
(* whether the current one has written its piece into the board            *)
(* (src/main.go:1136) and not yet written the cell back (line 1138), with  *)
(* the row of that cell; NoProbe when there is none.                       *)
NoProbe == [active |-> FALSE, calls |-> <<>>, idx |-> 0, written |-> FALSE,
            row |-> NotReached]

(* snapshot is the game record the step just taken sent to a client, if it *)
(* was a read request, next to the board of the pieces placed by then.     *)
NoSnapshot == [taken |-> FALSE]

Init ==
    /\ \E g \in StartPositions :
          /\ Board = g.Board
          /\ CurrentPlayer = g.CurrentPlayer
          /\ Mode = g.Mode
          /\ GameOver = g.GameOver
          /\ Winner = g.Winner
          /\ StatusMessage = g.StatusMessage
    /\ lastOp = Op("main", NoCol, "n/a", NotReached, <<>>, NoSel)
    /\ moves = 0
    /\ inflight = Idle
    /\ probe = NoProbe
    /\ snapshot = NoSnapshot

HandleMove(col, rnd) ==
    /\ moves < MaxMoves
    /\ \E r \in {handleMove(Game, col, rnd)} :
          /\ SetGame(r.g)
          /\ lastOp' = Op("handleMove", col, "n/a", r.row, r.placed, r.sel)
          /\ moves' = moves + Accepted(r.placed)
          /\ inflight' = Overlapped
    /\ UNCHANGED probe
    /\ snapshot' = NoSnapshot

HandleMoveAPI(col) ==
    /\ moves < MaxMoves
    /\ \E r \in {handleMoveAPI(Game, col)} :
          /\ SetGame(r.g)
          /\ lastOp' = Op("handleMoveAPI", col, "n/a", r.row, r.placed, r.sel)
          /\ moves' = moves + Accepted(r.placed)
          /\ inflight' = Overlapped
    /\ UNCHANGED probe
    /\ snapshot' = NoSnapshot

AiMoveAPI(rnd) ==
    /\ moves < MaxMoves
    /\ \E r \in {aiMoveAPI(Game, rnd)} :
          /\ SetGame(r.g)
          /\ lastOp' = Op("aiMoveAPI", NoCol, "n/a", r.row, r.placed, r.sel)
          /\ moves' = moves + Accepted(r.placed)
          /\ inflight' = Overlapped
    /\ UNCHANGED probe
    /\ snapshot' = NoSnapshot

HandleModeChange(mode) ==
    /\ \E g \in {handleModeChange(Game, mode)} : SetGame(g)
    /\ lastOp' = Op("handleModeChange", NoCol, mode, NotReached, <<>>, NoSel)
    /\ moves' = 0
    /\ inflight' = Overlapped
    /\ UNCHANGED probe
    /\ snapshot' = NoSnapshot

HandleNewGame(mode) ==
    /\ \E g \in {handleNewGame(Game, mode)} : SetGame(g)
    /\ lastOp' = Op("handleNewGame", NoCol, mode, NotReached, <<>>, NoSel)
    /\ moves' = 0
    /\ inflight' = Overlapped
    /\ UNCHANGED probe
    /\ snapshot' = NoSnapshot

NewGameAPI(mode) ==
    /\ \E g \in {newGameAPI(Game, mode)} : SetGame(g)
    /\ lastOp' = Op("newGameAPI", NoCol, mode, NotReached, <<>>, NoSel)
    /\ moves' = 0
    /\ inflight' = Overlapped
    /\ UNCHANGED probe
    /\ snapshot' = NoSnapshot

(* getBestMove reaches rand.Intn only when column 3 is full at the call,   *)
(* so only when column 3 has at most one empty cell as the request         *)
(* arrives; otherwise the value drawn is never read and one value stands   *)
(* for all.                                                                *)
RandDrawn == IF Board[1][3] = CELL_EMPTY THEN {0} ELSE RandInputs

Next ==
    \/ \E col \in ColInputs, rnd \in RandDrawn : HandleMove(col, rnd)
    \/ \E col \in ColInputs : HandleMoveAPI(col)
    \/ \E rnd \in RandDrawn : AiMoveAPI(rnd)
    \/ \E mode \in ModeInputs : HandleModeChange(mode)
    \/ \E mode \in ModeInputs : HandleNewGame(mode)
    \/ \E mode \in ModeInputs : NewGameAPI(mode)

Spec == Init /\ [][Next]_vars

----------------------------------------------------------------------------
(* Requests served concurrently.  net/http runs each handler on its own    *)
(* goroutine and the program holds no lock on currentGame, so while one    *)
(* handleMove request sleeps between its checkGameEnd and its aiMakeMove   *)
(* the other handlers run on the same game record.  A handler that does    *)
(* not sleep is taken as one step, as above.                               *)

HandleMoveBegin(col) ==
    /\ moves < MaxMoves
    /\ ~inflight.active
    /\ \E r \in {handleMoveUntilSleep(Game, col)} :
          /\ r.sleeps
          /\ SetGame(r.g)
          /\ lastOp' = Op("handleMove:sleep", col, "n/a", r.row, r.placed, NoSel)
          /\ moves' = moves + Accepted(r.placed)
          /\ inflight' = [active |-> TRUE, col |-> col, row |-> r.row,
                          placed |-> r.placed, others |-> 0]
    /\ UNCHANGED probe
    /\ snapshot' = NoSnapshot

HandleMoveResume(rnd) ==
    /\ inflight.active
    /\ \E a \in {aiMakeMove(Game, rnd)} :
          /\ SetGame(a.g)
          /\ lastOp' = Op("handleMove", inflight.col, "n/a", inflight.row,
                          inflight.placed \o a.placed, a.sel)
    /\ moves' = moves
    /\ inflight' = Idle
    /\ UNCHANGED probe
    /\ snapshot' = NoSnapshot

OverlapAllowed == inflight.active => inflight.others < MaxOverlap

ConcNext ==
    \/ OverlapAllowed /\ \E col \in ColInputs, rnd \in RandDrawn :
                            HandleMove(col, rnd)
    \/ OverlapAllowed /\ \E col \in ColInputs : HandleMoveAPI(col)
    \/ OverlapAllowed /\ \E rnd \in RandDrawn : AiMoveAPI(rnd)
    \/ OverlapAllowed /\ \E mode \in ModeInputs : HandleModeChange(mode)
    \/ OverlapAllowed /\ \E mode \in ModeInputs : HandleNewGame(mode)
    \/ OverlapAllowed /\ \E mode \in ModeInputs : NewGameAPI(mode)
    \/ \E col \in Cols : HandleMoveBegin(col)
    \/ \E rnd \in RandDrawn : HandleMoveResume(rnd)

ConcSpec == Init /\ [][ConcNext]_vars

----------------------------------------------------------------------------
(* Games played through move requests only: the form handler and the JSON *)
(* handler place the piece of CurrentPlayer; /api/ai-move is never         *)
(* requested.  A new-game request starts the next game.                    *)

MovesOnlyNext ==
    \/ \E col \in ColInputs, rnd \in RandDrawn : HandleMove(col, rnd)
    \/ \E col \in ColInputs : HandleMoveAPI(col)
    \/ \E mode \in ModeInputs : HandleModeChange(mode)
    \/ \E mode \in ModeInputs : HandleNewGame(mode)
    \/ \E mode \in ModeInputs : NewGameAPI(mode)

MovesOnlySpec == Init /\ [][MovesOnlyNext]_vars

----------------------------------------------------------------------------
(* Read requests served while a request is inside the AI selector.  An     *)
(* /api/ai-move request is taken call by call through getBestMove: each    *)
(* wouldWin writes its piece into currentGame.Board, runs checkForWin and  *)
(* writes the cell back, and between the two writes the handlers of GET /  *)
(* and GET /api/state, which run on their own goroutines and take no       *)
(* lock, read the same record.  While the selector runs the requests that  *)
(* write the game are held back here.                                      *)

(* The calls of wouldWin findWinningMove makes for `player`: one per valid *)
(* column, left to right, up to the first that returns true.               *)
wouldWinCalls(g, player) ==
    With(findWinningMove(g, player).col, LAMBDA found :
      SelectSeq([i \in 1 .. Len(getValidMoves(g.Board)) |->
                   [col |-> getValidMoves(g.Board)[i], player |-> player]],
                LAMBDA c : found = 0 - 1 \/ c.col <= found))

(* The calls of wouldWin getBestMove makes: those for PLAYER_2 and, when   *)
(* none of them returns true, those for PLAYER_1.                          *)
getBestMoveCalls(g) ==
    IF findWinningMove(g, PLAYER_2).col # 0 - 1
    THEN wouldWinCalls(g, PLAYER_2)
    ELSE wouldWinCalls(g, PLAYER_2) \o wouldWinCalls(g, PLAYER_1)

(* The board of the pieces placed by accepted moves: the board without the *)
(* piece a wouldWin call has written and not yet written back.             *)
PlacedBoard ==
    IF probe.written
    THEN [Board EXCEPT ![probe.row][probe.calls[probe.idx].col] = CELL_EMPTY]
    ELSE Board

AiMoveAPIBegin ==
    /\ moves < MaxMoves
    /\ ~probe.active
    /\ probe' = [active |-> TRUE, calls |-> getBestMoveCalls(Game), idx |-> 1,
                 written |-> FALSE, row |-> NotReached]
    /\ snapshot' = NoSnapshot
    /\ UNCHANGED <<Board, CurrentPlayer, Mode, GameOver, Winner,
                   StatusMessage, lastOp, moves, inflight>>

(* wouldWin up to its write of the probe piece (src/main.go:1136). *)
WouldWinWrite ==
    /\ probe.active /\ ~probe.written
    /\ probe.idx <= Len(probe.calls)
    /\ \E row \in {wouldWinScan(Board, probe.calls[probe.idx].col,
                                 BOARD_ROWS - 1)} :
          /\ row # 0 - 1
          /\ Board' = [Board EXCEPT ![row][probe.calls[probe.idx].col] =
                                       probe.calls[probe.idx].player]
          /\ probe' = [probe EXCEPT !.written = TRUE, !.row = row]
    /\ snapshot' = NoSnapshot
    /\ UNCHANGED <<CurrentPlayer, Mode, GameOver, Winner, StatusMessage,
                   lastOp, moves, inflight>>

(* wouldWin from its checkForWin to its return (src/main.go:1137-1141). *)
WouldWinRestore ==
    /\ probe.active /\ probe.written
    /\ Board' = [Board EXCEPT ![probe.row][probe.calls[probe.idx].col] =
                                 CELL_EMPTY]
    /\ probe' = [probe EXCEPT !.written = FALSE, !.row = NotReached,
                              !.idx = @ + 1]
    /\ snapshot' = NoSnapshot
    /\ UNCHANGED <<CurrentPlayer, Mode, GameOver, Winner, StatusMessage,
                   lastOp, moves, inflight>>

(* aiMoveAPI from the return of getBestMove on. *)
AiMoveAPIEnd(rnd) ==
    /\ probe.active /\ ~probe.written
    /\ probe.idx > Len(probe.calls)
    /\ \E r \in {aiMoveAPI(Game, rnd)} :
          /\ SetGame(r.g)
          /\ lastOp' = Op("aiMoveAPI", NoCol, "n/a", r.row, r.placed, r.sel)
          /\ moves' = moves + Accepted(r.placed)
    /\ probe' = NoProbe
    /\ snapshot' = NoSnapshot
    /\ UNCHANGED inflight

GetGameStateAPI ==
    /\ snapshot' = [taken |-> TRUE, by |-> "getGameStateAPI", game |-> Game,
                    placed |-> PlacedBoard]
    /\ UNCHANGED <<Board, CurrentPlayer, Mode, GameOver, Winner,
                   StatusMessage, lastOp, moves, inflight, probe>>

ServeIndex ==
    /\ snapshot' = [taken |-> TRUE, by |-> "serveIndex", game |-> Game,
                    placed |-> PlacedBoard]
    /\ UNCHANGED <<Board, CurrentPlayer, Mode, GameOver, Winner,
                   StatusMessage, lastOp, moves, inflight, probe>>

SnapshotNext ==
    \/ ~probe.active /\ \E col \in ColInputs : HandleMoveAPI(col)
    \/ ~probe.active /\ \E mode \in ModeInputs : NewGameAPI(mode)
    \/ AiMoveAPIBegin
    \/ WouldWinWrite
    \/ WouldWinRestore
    \/ \E rnd \in RandDrawn : AiMoveAPIEnd(rnd)
    \/ GetGameStateAPI
    \/ ServeIndex

SnapshotSpec == Init /\ [][SnapshotNext]_vars

----------------------------------------------------------------------------
(* Vocabulary of the properties, stated on the grid itself and independent *)
(* of the counting loops of the code.                                      *)

MoveOps == {"handleMove", "handleMoveAPI"}
PlacingOps == {"handleMove", "handleMoveAPI", "aiMoveAPI"}
NewGameOps == {"handleModeChange", "handleNewGame", "newGameAPI"}

(* The four line directions, as (row step, column step). *)
Dirs == {<<0, 1>>, <<1, 0>>, <<1, 1>>, <<0 - 1, 1>>}

(* (r, c) is occupied and one of the windows of WINNING_COUNT cells that   *)
(* contain it along a line lies inside the grid and holds one side only.   *)
InRunOf4(board, r, c) ==
    /\ board[r][c] # CELL_EMPTY
    /\ \E d \in Dirs, k \in 0 .. (WINNING_COUNT - 1) :
         \A i \in 0 .. (WINNING_COUNT - 1) :
            LET rr == r + (i - k) * d[1]
                cc == c + (i - k) * d[2]
            IN rr \in Rows /\ cc \in Cols /\ board[rr][cc] = board[r][c]

AllCellsOccupied(board) ==
    \A rc \in Cells : board[rc[1]][rc[2]] # CELL_EMPTY

ColumnOccupied(board, col) == \A r \in Rows : board[r][col] # CELL_EMPTY

Pieces(board, side) ==
    Cardinality({rc \in Cells : board[rc[1]][rc[2]] = side})

(* The board as it was right after the i-th placement of a request that    *)
(* ended with `board`: the later placements of the request taken off.      *)
BoardAfterPlacement(board, placed, i) ==
    [r \in Rows |-> [c \in Cols |->
       IF \E j \in (i + 1) .. Len(placed) :
             placed[j].row = r /\ placed[j].col = c
       THEN CELL_EMPTY ELSE board[r][c]]]

LastPlaced == lastOp.placed[Len(lastOp.placed)]

HasRoom(board, col) == \E r \in Rows : board[r][col] = CELL_EMPTY

(* The cell a piece dropped in a column with room comes to rest in: the    *)
(* empty cell of the column with the greatest row index.                   *)
LandingRow(board, col) ==
    CHOOSE r \in Rows :
       /\ board[r][col] = CELL_EMPTY
       /\ \A q \in Rows : board[q][col] = CELL_EMPTY => q <= r

(* The columns with room where a piece of `side` would lie in a run of 4. *)
WinningCols(board, side) ==
    {c \in Cols :
       /\ HasRoom(board, c)
       /\ InRunOf4([board EXCEPT ![LandingRow(board, c)][c] = side],
                   LandingRow(board, c), c)}

Lowest(S) == CHOOSE x \in S : \A y \in S : x <= y

(* The board the call of getBestMove of the latest request read: the       *)
(* board before the request's last placement, which follows that call.     *)
BoardAtSelection ==
    BoardAfterPlacement(Board, lastOp.placed, Len(lastOp.placed) - 1)

----------------------------------------------------------------------------
(* C1: gravity.  In every state reached from a new game by move and        *)
(* automated-move requests, no empty cell has an occupied cell above it    *)
(* in its column: each column's pieces form one run from the bottom row.   *)
C1_Gravity ==
    \A c \in Cols : \A r \in 0 .. (BOARD_ROWS - 2) :
       Board[r][c] # CELL_EMPTY => Board[r + 1][c] # CELL_EMPTY

(* A request has just placed two pieces, one of them on top of another     *)
(* piece, while some column is still empty.                                *)
C1_Witness ==
    /\ Len(lastOp.placed) = 2
    /\ \E i \in 1 .. 2 : lastOp.placed[i].row < BOARD_ROWS - 1
    /\ \E c \in Cols : Board[BOARD_ROWS - 1][c] = CELL_EMPTY

(* C2: for every occupied cell of every reachable board, checkForWin       *)
(* returns the occupant exactly when the cell lies in a run of at least 4  *)
(* cells of that side along its row, column or a diagonal, and 0           *)
(* otherwise, runs along the top row, the edges and the corners included.  *)
C2_CheckForWinCorrect ==
    \A rc \in Cells :
       Board[rc[1]][rc[2]] # CELL_EMPTY =>
          checkForWin(Board, rc[1], rc[2]) =
             IF InRunOf4(Board, rc[1], rc[2]) THEN Board[rc[1]][rc[2]] ELSE 0

(* The top-left corner ends a diagonal run of 4 and checkForWin reports    *)
(* its occupant there, while another occupied cell gets 0.                 *)
C2_Witness ==
    /\ Board[0][0] # CELL_EMPTY
    /\ \A k \in 1 .. (WINNING_COUNT - 1) : Board[k][k] = Board[0][0]
    /\ checkForWin(Board, 0, 0) = Board[0][0]
    /\ \E rc \in Cells : /\ Board[rc[1]][rc[2]] # CELL_EMPTY
                         /\ checkForWin(Board, rc[1], rc[2]) = 0

(* C3: a move request that arrives while GameOver is true is rejected and  *)
(* leaves Board, CurrentPlayer, GameOver and Winner as they were, through  *)
(* handleMove and through handleMoveAPI, for every column.                 *)
C3_MoveAfterGameOverRejected ==
    [][(GameOver /\ lastOp'.op \in MoveOps)
         => /\ lastOp'.placed = <<>>
            /\ UNCHANGED <<Board, CurrentPlayer, GameOver, Winner>>]_vars

(* C4: once GameOver is true it stays true and Winner keeps its value      *)
(* under every move and automated-move request, until a new-game or        *)
(* mode-change request replaces the state.                                 *)
C4_OverIsTerminal ==
    [][(GameOver /\ lastOp'.op \in PlacingOps)
         => (GameOver' /\ Winner' = Winner)]_vars

(* C5: a move request into a column whose 6 cells are occupied gets -1     *)
(* from placePiece, places nothing, and leaves every cell, CurrentPlayer,  *)
(* GameOver and Winner as they were.                                       *)
C5_ColumnFullRejected ==
    [][(/\ lastOp'.op \in MoveOps
        /\ lastOp'.col \in Cols
        /\ ColumnOccupied(Board, lastOp'.col))
         => /\ lastOp'.row = 0 - 1
            /\ lastOp'.placed = <<>>
            /\ UNCHANGED <<Board, CurrentPlayer, GameOver, Winner>>]_vars

(* A move request into a full column has just been answered with -1. *)
C5_Witness ==
    /\ lastOp.op \in MoveOps
    /\ lastOp.col \in Cols
    /\ lastOp.row = 0 - 1
    /\ ColumnOccupied(Board, lastOp.col)
    /\ ~AllCellsOccupied(Board)

(* C6: when a placement puts its cell in a run of at least 4 cells of the  *)
(* placing side, the request ends with GameOver true, Winner the placing   *)
(* side, and CurrentPlayer as it was just before the placement.            *)
C6_WinEndsGame ==
    [][\A i \in 1 .. Len(lastOp'.placed) :
         InRunOf4(BoardAfterPlacement(Board', lastOp'.placed, i),
                  lastOp'.placed[i].row, lastOp'.placed[i].col)
           => /\ GameOver'
              /\ Winner' = lastOp'.placed[i].side
              /\ CurrentPlayer' = lastOp'.placed[i].cp]_vars

(* The automated-move request has just completed a run of 4 for Second     *)
(* while CurrentPlayer was First: Second is the winner.                    *)
C6_Witness ==
    /\ lastOp.op = "aiMoveAPI"
    /\ Len(lastOp.placed) = 1
    /\ InRunOf4(Board, LastPlaced.row, LastPlaced.col)
    /\ LastPlaced.cp = PLAYER_1
    /\ GameOver
    /\ Winner = PLAYER_2
    /\ CurrentPlayer = PLAYER_1

(* C7: when a placement fills the last empty cell, the request ends with   *)
(* GameOver true and Winner = Draw if the placed cell is in no run of 4,   *)
(* and with Winner the placing side if it is.                              *)
C7_FullBoardOutcome ==
    [][(Len(lastOp'.placed) > 0 /\ AllCellsOccupied(Board'))
         => LET last == lastOp'.placed[Len(lastOp'.placed)] IN
            /\ GameOver'
            /\ Winner' = IF InRunOf4(Board', last.row, last.col)
                         THEN last.side ELSE PLAYER_DRAW]_vars

(* A placement has just filled the board without a run of 4 through its    *)
(* cell: the game is drawn.                                                *)
C7_Witness ==
    /\ Len(lastOp.placed) > 0
    /\ AllCellsOccupied(Board)
    /\ ~InRunOf4(Board, LastPlaced.row, LastPlaced.col)
    /\ GameOver
    /\ Winner = PLAYER_DRAW

(* C8: after every placement that neither completes a run of 4 nor fills   *)
(* the board, once its turn step has finished the side to move is the      *)
(* side opposite to the one that placed, whatever Mode holds.  The side to *)
(* move after a placement is the CurrentPlayer the next placement of the   *)
(* same request reads, or CurrentPlayer when the request returns.          *)
C8_TurnPassesToOtherSide ==
    [][\A i \in 1 .. Len(lastOp'.placed) :
         LET after == BoardAfterPlacement(Board', lastOp'.placed, i)
             p == lastOp'.placed[i]
         IN (~InRunOf4(after, p.row, p.col) /\ ~AllCellsOccupied(after))
              => (IF i < Len(lastOp'.placed) THEN lastOp'.placed[i + 1].cp
                  ELSE CurrentPlayer') = PLAYER_1 + PLAYER_2 - p.side]_vars

(* C9: in VsAutomated mode with the game in progress, when First's move    *)
(* through handleMove is accepted and does not end the game, the request   *)
(* places exactly one First piece and then one Second piece, and returns   *)
(* with CurrentPlayer = First unless the reply ended the game.             *)
C9_OneAutomatedReply ==
    [][(/\ Mode = GAME_MODE_AI /\ CurrentPlayer = PLAYER_1 /\ ~GameOver
        /\ lastOp'.op = "handleMove"
        /\ Len(lastOp'.placed) > 0
        /\ LET after == BoardAfterPlacement(Board', lastOp'.placed, 1)
               p == lastOp'.placed[1]
           IN ~InRunOf4(after, p.row, p.col) /\ ~AllCellsOccupied(after))
         => /\ Len(lastOp'.placed) = 2
            /\ lastOp'.placed[1].side = PLAYER_1
            /\ lastOp'.placed[2].side = PLAYER_2
            /\ Pieces(Board', PLAYER_1) = Pieces(Board, PLAYER_1) + 1
            /\ Pieces(Board', PLAYER_2) = Pieces(Board, PLAYER_2) + 1
            /\ (~GameOver' => CurrentPlayer' = PLAYER_1)]_vars

(* handleMove has just placed First's piece and the automated reply in     *)
(* VsAutomated mode, and the game goes on with First to move.              *)
C9_Witness ==
    /\ Mode = GAME_MODE_AI
    /\ lastOp.op = "handleMove"
    /\ Len(lastOp.placed) = 2
    /\ lastOp.placed[1].side = PLAYER_1
    /\ lastOp.placed[2].side = PLAYER_2
    /\ ~GameOver
    /\ CurrentPlayer = PLAYER_1

(* C10: the AI selector leaves nothing behind.  The call of getBestMove a  *)
(* request made left every cell and every field of the game record as it   *)
(* found them; and on every reachable game record, each wouldWin, each     *)
(* findWinningMove and getBestMove return the record they were given,      *)
(* whatever their result.                                                  *)
C10_SelectorLeavesNoTrace ==
    /\ lastOp.sel.cells = {} /\ lastOp.sel.fields = {}
    /\ \A player \in {PLAYER_1, PLAYER_2} :
          /\ \A col \in Cols : wouldWin(Game, col, player).g = Game
          /\ findWinningMove(Game, player).g = Game
    /\ \A rnd \in RandDrawn : getBestMove(Game, rnd).g = Game

(* A request has just called getBestMove on a board where a probe found a  *)
(* winning column for Second, and the reply played there won the game; on  *)
(* the board it left, a probe for First answers true as well.              *)
C10_Witness ==
    /\ lastOp.sel.called
    /\ Len(lastOp.placed) > 0
    /\ LastPlaced.side = PLAYER_2
    /\ InRunOf4(Board, LastPlaced.row, LastPlaced.col)
    /\ Winner = PLAYER_2
    /\ \E col \in Cols : wouldWin(Game, col, PLAYER_1).win

(* C11: win-now rule.  Whenever some column with room would give Second a  *)
(* run of 4, getBestMove returns the lowest-index such column, whether or  *)
(* not First has a winning column of its own (lower or higher); and the    *)
(* reply a request placed after calling getBestMove went to that column.   *)
C11_WinNow ==
    /\ WinningCols(Board, PLAYER_2) # {}
          => \A rnd \in RandDrawn :
                getBestMove(Game, rnd).col = Lowest(WinningCols(Board, PLAYER_2))
    /\ (/\ lastOp.sel.called
        /\ Len(lastOp.placed) > 0
        /\ WinningCols(BoardAtSelection, PLAYER_2) # {})
          => LastPlaced.col = Lowest(WinningCols(BoardAtSelection, PLAYER_2))

(* The automated move has just completed a run of 4 for Second in the      *)
(* lowest of its winning columns, while First had a winning column with a  *)
(* lower index, which it still has.                                        *)
C11_Witness ==
    /\ lastOp.sel.called
    /\ Len(lastOp.placed) > 0
    /\ LastPlaced.side = PLAYER_2
    /\ WinningCols(BoardAtSelection, PLAYER_2) # {}
    /\ LastPlaced.col = Lowest(WinningCols(BoardAtSelection, PLAYER_2))
    /\ \E c \in WinningCols(BoardAtSelection, PLAYER_1) : c < LastPlaced.col
    /\ Winner = PLAYER_2

(* C12: block rule.  When no column with room gives Second a run of 4 and  *)
(* some column with room would give First one, getBestMove returns the     *)
(* lowest-index column where First would win, column 3 having room or not; *)
(* and the reply a request placed after calling getBestMove went there.    *)
C12_Block ==
    /\ (WinningCols(Board, PLAYER_2) = {} /\ WinningCols(Board, PLAYER_1) # {})
          => \A rnd \in RandDrawn :
                getBestMove(Game, rnd).col = Lowest(WinningCols(Board, PLAYER_1))
    /\ (/\ lastOp.sel.called
        /\ Len(lastOp.placed) > 0
        /\ WinningCols(BoardAtSelection, PLAYER_2) = {}
        /\ WinningCols(BoardAtSelection, PLAYER_1) # {})
          => LastPlaced.col = Lowest(WinningCols(BoardAtSelection, PLAYER_1))

(* The automated move has just gone to the lower of First's two winning    *)
(* columns, which is not column 3, while column 3 had room and Second had  *)
(* no winning column.                                                      *)
C12_Witness ==
    /\ lastOp.sel.called
    /\ Len(lastOp.placed) > 0
    /\ LastPlaced.side = PLAYER_2
    /\ WinningCols(BoardAtSelection, PLAYER_2) = {}
    /\ WinningCols(BoardAtSelection, PLAYER_1) # {}
    /\ LastPlaced.col = Lowest(WinningCols(BoardAtSelection, PLAYER_1))
    /\ \E c \in WinningCols(BoardAtSelection, PLAYER_1) : c > LastPlaced.col
    /\ LastPlaced.col # 3
    /\ HasRoom(BoardAtSelection, 3)

(* C13: center rule.  When neither side has a winning column and column 3  *)
(* has room, getBestMove returns 3; and the reply a request placed after   *)
(* calling getBestMove went to column 3.                                   *)
C13_Center ==
    /\ (/\ WinningCols(Board, PLAYER_2) = {}
        /\ WinningCols(Board, PLAYER_1) = {}
        /\ HasRoom(Board, 3))
          => \A rnd \in RandDrawn : getBestMove(Game, rnd).col = 3
    /\ (/\ lastOp.sel.called
        /\ Len(lastOp.placed) > 0
        /\ WinningCols(BoardAtSelection, PLAYER_2) = {}
        /\ WinningCols(BoardAtSelection, PLAYER_1) = {}
        /\ HasRoom(BoardAtSelection, 3))
          => LastPlaced.col = 3

(* The automated move has just gone to column 3, on top of other pieces,   *)
(* on a board where neither side had a winning column.                     *)
C13_Witness ==
    /\ lastOp.sel.called
    /\ Len(lastOp.placed) > 0
    /\ LastPlaced.side = PLAYER_2
    /\ LastPlaced.col = 3
    /\ LastPlaced.row < BOARD_ROWS - 1
    /\ WinningCols(BoardAtSelection, PLAYER_2) = {}
    /\ WinningCols(BoardAtSelection, PLAYER_1) = {}

(* C14 as stated: a new-game request, from any reachable state and with    *)
(* any mode value, yields all 42 cells empty, CurrentPlayer = First,       *)
(* GameOver = false, Winner = None and Mode equal to the requested mode.   *)
C14_NewGameResets ==
    [][lastOp'.op \in NewGameOps
         => /\ Board' = EmptyBoard
            /\ CurrentPlayer' = PLAYER_1
            /\ ~GameOver'
            /\ Winner' = 0
            /\ Mode' = lastOp'.mode]_vars

(* C14 amended: the same, except that handleNewGame given an empty mode    *)
(* value keeps the Mode the game had before the request.                   *)
C14_NewGameResetsAmended ==
    [][lastOp'.op \in NewGameOps
         => /\ Board' = EmptyBoard
            /\ CurrentPlayer' = PLAYER_1
            /\ ~GameOver'
            /\ Winner' = 0
            /\ Mode' = IF lastOp'.op = "handleNewGame" /\ lastOp'.mode = ""
                       THEN Mode ELSE lastOp'.mode]_vars

(* handleNewGame has just been given an empty mode value in a game against *)
(* the AI: the board is empty, First is to move and the Mode is still ai.  *)
C14_Witness ==
    /\ lastOp.op = "handleNewGame"
    /\ lastOp.mode = ""
    /\ Mode = GAME_MODE_AI
    /\ Board = EmptyBoard
    /\ CurrentPlayer = PLAYER_1
    /\ ~GameOver
    /\ Winner = 0

(* The scenario of C15: from a new two-player game, First plays column 3   *)
(* and Second column 4 in turn, through handleMove.  ScenarioAfter(k) is   *)
(* the game record after the first k of these requests.                    *)
ScenarioCols == <<3, 4, 3, 4, 3, 4, 3>>

ScenarioAfter(k) ==
    Replay(startNewGame(GAME_MODE_TWO_PLAYER), "handleMove",
           SubSeq(ScenarioCols, 1, k), 1)

(* The records of the scenario, computed once. *)
ScenarioRecords == [k \in 0 .. Len(ScenarioCols) |-> ScenarioAfter(k)]

ScenarioEnd == ScenarioRecords[Len(ScenarioCols)]

(* C15: in the scenario every one of the seven moves is accepted, GameOver *)
(* is false after each of the first six, and after the seventh (First's    *)
(* fourth piece in column 3) GameOver is true and Winner is First; and a   *)
(* two-player game whose latest move produced the scenario's final board   *)
(* is over with Winner First.                                              *)
C15_ColumnThreeScenario ==
    /\ \A k \in 0 .. (Len(ScenarioCols) - 1) :
          /\ ~ScenarioRecords[k].GameOver
          /\ ScenarioRecords[k].Winner = 0
          /\ Pieces(ScenarioRecords[k].Board, PLAYER_1) = (k + 1) \div 2
          /\ Pieces(ScenarioRecords[k].Board, PLAYER_2) = k \div 2
          /\ ScenarioRecords[k].CurrentPlayer = IF k % 2 = 0 THEN PLAYER_1
                                                ELSE PLAYER_2
    /\ ScenarioEnd.GameOver
    /\ ScenarioEnd.Winner = PLAYER_1
    /\ Pieces(ScenarioEnd.Board, PLAYER_1) = 4
    /\ (/\ Mode = GAME_MODE_TWO_PLAYER
        /\ lastOp.op \in MoveOps
        /\ Len(lastOp.placed) = 1
        /\ Board = ScenarioEnd.Board)
          => (GameOver /\ Winner = PLAYER_1)

(* The sixth and the seventh move of the scenario have just been played    *)
(* through handleMove: First's fourth piece landed in row 2 of column 3    *)
(* and the game is over, won by First.                                     *)
C15_Witness ==
    /\ Mode = GAME_MODE_TWO_PLAYER
    /\ lastOp.op = "handleMove"
    /\ lastOp.col = 3
    /\ lastOp.row = 2
    /\ moves = 2
    /\ Board = ScenarioEnd.Board
    /\ GameOver
    /\ Winner = PLAYER_1

(* C16: a move request whose column index is outside [0, 7) is rejected    *)
(* by its handler before placePiece is called, so before any cell of the   *)
(* board is indexed, and leaves Board, CurrentPlayer, GameOver and Winner  *)
(* as they were, through handleMove and through handleMoveAPI.             *)
C16_InvalidColumnRejected ==
    [][(lastOp'.op \in MoveOps /\ lastOp'.col \notin Cols)
         => /\ lastOp'.row = NotReached
            /\ lastOp'.placed = <<>>
            /\ UNCHANGED <<Board, CurrentPlayer, GameOver, Winner>>]_vars

(* C17: between two new-game requests, every cell that is non-empty when   *)
(* a move or automated-move request arrives holds the same occupant when   *)
(* the request has completed, and the probes of the AI selection the       *)
(* request ran left no cell changed: no completed operation empties a cell *)
(* or changes its occupant.                                                *)
C17_OccupantsPersist ==
    [][lastOp'.op \in PlacingOps
         => /\ \A rc \in Cells :
                  Board[rc[1]][rc[2]] # CELL_EMPTY
                     => Board'[rc[1]][rc[2]] = Board[rc[1]][rc[2]]
            /\ lastOp'.sel.cells = {}]_vars

(* A request has just placed First's piece and, after an AI selection,     *)
(* Second's reply, each on top of a piece of the other side that is still  *)
(* there.                                                                  *)
C17_Witness ==
    /\ Len(lastOp.placed) = 2
    /\ lastOp.sel.called
    /\ \A i \in 1 .. 2 :
          /\ lastOp.placed[i].row < BOARD_ROWS - 1
          /\ Board[lastOp.placed[i].row][lastOp.placed[i].col]
                = lastOp.placed[i].side
          /\ Board[lastOp.placed[i].row + 1][lastOp.placed[i].col]
                = PLAYER_1 + PLAYER_2 - lastOp.placed[i].side

(* C19: on every reachable board, for every column with room and either    *)
(* side, placePiece sets the lowest empty cell of the column (the empty    *)
(* cell with the greatest row index) to the side, returns that row index   *)
(* and leaves every other cell and every other field as it was; and every  *)
(* piece a request placed went to the lowest empty cell of its column on   *)
(* the board as it was before that placement.                              *)
C19_PlacePieceFrame ==
    /\ \A col \in Cols : \A side \in {PLAYER_1, PLAYER_2} :
          HasRoom(Board, col) =>
             With(placePiece(Game, col, side), LAMBDA p :
               /\ p.row = LandingRow(Board, col)
               /\ p.g.Board[p.row][col] = side
               /\ \A rc \in Cells :
                     rc # <<p.row, col>>
                        => p.g.Board[rc[1]][rc[2]] = Board[rc[1]][rc[2]]
               /\ p.g = [Game EXCEPT !.Board = p.g.Board])
    /\ \A i \in 1 .. Len(lastOp.placed) :
          With(BoardAfterPlacement(Board, lastOp.placed, i - 1), LAMBDA before :
            /\ HasRoom(before, lastOp.placed[i].col)
            /\ lastOp.placed[i].row = LandingRow(before, lastOp.placed[i].col)
            /\ Board[lastOp.placed[i].row][lastOp.placed[i].col]
                  = lastOp.placed[i].side)

(* A move has just put one piece in the middle of a column: the cell below *)
(* it is occupied, the cell above it is empty, and the row returned is the *)
(* row of the piece.                                                       *)
C19_Witness ==
    /\ lastOp.op \in MoveOps
    /\ Len(lastOp.placed) = 1
    /\ lastOp.row = LastPlaced.row
    /\ LastPlaced.row \in 1 .. (BOARD_ROWS - 2)
    /\ Board[LastPlaced.row][LastPlaced.col] = LastPlaced.side
    /\ Board[LastPlaced.row + 1][LastPlaced.col] # CELL_EMPTY
    /\ Board[LastPlaced.row - 1][LastPlaced.col] = CELL_EMPTY

(* C20: on every board reached by placements from a new game, isBoardFull  *)
(* (every cell of the top row non-empty) is true exactly when all 42 cells *)
(* of the board are non-empty.                                             *)
C20_IsBoardFullExact ==
    isBoardFull(Board) <=> AllCellsOccupied(Board)

(* A placement has just filled the last empty cell: isBoardFull is true.   *)
C20_Witness ==
    /\ Len(lastOp.placed) > 0
    /\ LastPlaced.row = 0
    /\ AllCellsOccupied(Board)
    /\ isBoardFull(Board)

(* C18: a move request runs its placement, its win/draw check and its      *)
(* automated reply as one unit: while a handleMove request is between its  *)
(* human placement and its automated reply, no other request is served    *)
(* on the game: a step that leaves the request in flight changes neither   *)
(* the board nor CurrentPlayer, Mode, GameOver or Winner.                  *)
C18_MoveRequestAtomic ==
    [][(inflight.active /\ inflight'.active)
         => UNCHANGED <<Board, CurrentPlayer, Mode, GameOver, Winner>>]_vars

(* C21: in VsAutomated mode driven through the JSON API, when the human    *)
(* move went through handleMoveAPI and the reply placed by aiMoveAPI does  *)
(* not end the game, CurrentPlayer is First when aiMoveAPI returns.        *)
C21_ReplyHandsTurnBack ==
    [][(/\ Mode = GAME_MODE_AI
        /\ ~GameOver
        /\ lastOp.op = "handleMoveAPI"
        /\ Len(lastOp.placed) = 1
        /\ LastPlaced.side = PLAYER_1
        /\ lastOp'.op = "aiMoveAPI"
        /\ Len(lastOp'.placed) = 1
        /\ ~GameOver')
         => CurrentPlayer' = PLAYER_1]_vars

(* C22: in VsAutomated mode Second never gets an extra turn: every piece   *)
(* of Second is placed while CurrentPlayer is Second and the game is not   *)
(* over, and the request before it, if it placed anything, placed a First  *)
(* piece last (pieces go down in the order First, Second, First, ...).     *)
C22_NoExtraTurn ==
    [][(Mode = GAME_MODE_AI /\ lastOp'.op \in PlacingOps)
         => \A i \in 1 .. Len(lastOp'.placed) :
               lastOp'.placed[i].side = PLAYER_2
                 => /\ lastOp'.placed[i].cp = PLAYER_2
                    /\ (i = 1 => ~GameOver)
                    /\ (i = 1 /\ Len(lastOp.placed) > 0)
                          => LastPlaced.side = PLAYER_1]_vars

(* The placements of the latest request that followed its call of          *)
(* getBestMove: none when the placePiece call after it returned -1.        *)
ReplyPlaced ==
    Len(lastOp.placed) = (IF lastOp.op = "aiMoveAPI" THEN 1 ELSE 2)

(* C23: whenever at least one column has room, the column getBestMove      *)
(* returns has room (its top cell is empty), whichever rule selects it and *)
(* whatever rand.Intn returns in the random fallback; and the placement    *)
(* that follows a call of getBestMove does not fail while a column has     *)
(* room.                                                                   *)
C23_SelectedColumnHasRoom ==
    /\ (\E c \in Cols : HasRoom(Board, c))
          => \A rnd \in RandDrawn :
                With(getBestMove(Game, rnd).col, LAMBDA col :
                  /\ col \in Cols
                  /\ Board[0][col] = CELL_EMPTY
                  /\ HasRoom(Board, col))
    /\ (lastOp.sel.called /\ ~ReplyPlaced)
          => \A c \in Cols : ~HasRoom(Board, c)

(* The automated reply has just been placed by the random fallback:        *)
(* neither side had a winning column, column 3 was full, several columns   *)
(* had room, and the piece went to one that is not the lowest of them.     *)
C23_Witness ==
    /\ lastOp.sel.called
    /\ ReplyPlaced
    /\ LastPlaced.side = PLAYER_2
    /\ WinningCols(BoardAtSelection, PLAYER_2) = {}
    /\ WinningCols(BoardAtSelection, PLAYER_1) = {}
    /\ ~HasRoom(BoardAtSelection, 3)
    /\ \E c \in Cols : c < LastPlaced.col /\ HasRoom(BoardAtSelection, c)

(* C24: the AI selector has no reachable error path: every call of         *)
(* getBestMove a request makes (from handleMove through aiMakeMove, or     *)
(* from aiMoveAPI) is followed by a successful placement; the row == -1    *)
(* branch after it is never taken.                                         *)
C24_SelectorNeverFails ==
    lastOp.sel.called => (ReplyPlaced /\ lastOp.row # 0 - 1)

(* C25: an automated turn run when no column has room is a no-op.  On a    *)
(* full board aiMakeMove returns the game with every cell, CurrentPlayer,  *)
(* GameOver and Winner as they were, and an aiMoveAPI request places       *)
(* nothing and leaves them unchanged.                                      *)
C25_AutomatedTurnOnFullBoard ==
    [][AllCellsOccupied(Board)
         => /\ \A rnd \in RandDrawn :
                  With(aiMakeMove(Game, rnd), LAMBDA a :
                    /\ a.placed = <<>>
                    /\ a.g.Board = Board
                    /\ a.g.CurrentPlayer = CurrentPlayer
                    /\ a.g.GameOver = GameOver
                    /\ a.g.Winner = Winner)
            /\ lastOp'.op = "aiMoveAPI"
                  => /\ lastOp'.placed = <<>>
                     /\ lastOp'.row = 0 - 1
                     /\ UNCHANGED <<Board, CurrentPlayer, GameOver,
                                    Winner>>]_vars

(* aiMoveAPI has just been run on a full, drawn board with Second as       *)
(* CurrentPlayer: it placed nothing.                                       *)
C25_Witness ==
    /\ AllCellsOccupied(Board)
    /\ lastOp.op = "aiMoveAPI"
    /\ lastOp.sel.called
    /\ lastOp.row = 0 - 1
    /\ lastOp.placed = <<>>
    /\ CurrentPlayer = PLAYER_2
    /\ GameOver

RunCells(board) == {rc \in Cells : InRunOf4(board, rc[1], rc[2])}

(* C26: checking the lines through the just-placed cell is enough: in      *)
(* every reachable state with GameOver = false the board has no run of 4   *)
(* or more cells of one side in any row, column or diagonal.               *)
C26_NoMissedWin ==
    ~GameOver => RunCells(Board) = {}

(* A request has just placed two pieces on a board with at least 9 pieces  *)
(* of each side, a diagonal of three among them, and the game goes on:     *)
(* no run of 4 anywhere.                                                   *)
C26_Witness ==
    /\ ~GameOver
    /\ Len(lastOp.placed) = 2
    /\ Pieces(Board, PLAYER_1) >= 9
    /\ Pieces(Board, PLAYER_2) >= 9
    /\ \E rc \in Cells :
          /\ rc[1] + 2 \in Rows /\ rc[2] + 2 \in Cols
          /\ Board[rc[1]][rc[2]] # CELL_EMPTY
          /\ \A k \in 1 .. 2 : Board[rc[1] + k][rc[2] + k] = Board[rc[1]][rc[2]]
    /\ RunCells(Board) = {}

(* C27: in every reachable state Winner is 0, 1, 2 or 3, CurrentPlayer is  *)
(* 1 or 2, every cell is 0, 1 or 2, and GameOver is true exactly when      *)
(* Winner is not 0.                                                        *)
C27_FieldRanges ==
    /\ Winner \in {0, PLAYER_1, PLAYER_2, PLAYER_DRAW}
    /\ CurrentPlayer \in {PLAYER_1, PLAYER_2}
    /\ \A rc \in Cells :
          Board[rc[1]][rc[2]] \in {CELL_EMPTY, PLAYER_1, PLAYER_2}
    /\ GameOver <=> Winner # 0

(* A placement has just filled the board without a run through its cell:   *)
(* GameOver is true and Winner is 3.                                       *)
C27_Witness ==
    /\ Len(lastOp.placed) > 0
    /\ AllCellsOccupied(Board)
    /\ GameOver
    /\ Winner = PLAYER_DRAW
    /\ CurrentPlayer \in {PLAYER_1, PLAYER_2}

(* C28: in every reachable state, if Winner is First or Second the board   *)
(* contains a run of at least 4 cells of that side in a row, a column or   *)
(* a diagonal.                                                             *)
C28_WinnerHasRun ==
    Winner \in {PLAYER_1, PLAYER_2}
      => \E rc \in RunCells(Board) : Board[rc[1]][rc[2]] = Winner

(* First has won and a later request has placed a piece that is in no run: *)
(* the run of First is still on the board.                                 *)
C28_Witness ==
    /\ Winner = PLAYER_1
    /\ GameOver
    /\ Len(lastOp.placed) > 0
    /\ ~InRunOf4(Board, LastPlaced.row, LastPlaced.col)
    /\ \E rc \in RunCells(Board) : Board[rc[1]][rc[2]] = PLAYER_1

(* C29: in every reachable state, Winner = Draw implies that all 42 cells  *)
(* are non-empty and that the board contains no run of 4 cells of either   *)
(* side.                                                                   *)
C29_DrawMeansNoRun ==
    Winner = PLAYER_DRAW
      => (AllCellsOccupied(Board) /\ RunCells(Board) = {})

TotalPieces(board) == Pieces(board, PLAYER_1) + Pieces(board, PLAYER_2)

(* C30: every game terminates.  In every reachable state a full board      *)
(* implies GameOver, and a game in progress has fewer than 42 pieces;      *)
(* every request adds exactly one piece per placement it made and none     *)
(* otherwise, so that a game is over after at most 42 accepted placements. *)
C30_GameTerminates ==
    /\ [](/\ AllCellsOccupied(Board) => GameOver
          /\ ~GameOver => TotalPieces(Board) < BOARD_ROWS * BOARD_COLS)
    /\ [][lastOp'.op \in PlacingOps
            => /\ TotalPieces(Board') = TotalPieces(Board) + Len(lastOp'.placed)
               /\ TotalPieces(Board') <= BOARD_ROWS * BOARD_COLS]_vars

(* The 42nd piece has just been placed, in a game that was in progress     *)
(* with 41 pieces: the game is over.                                       *)
C30_Witness ==
    /\ Len(lastOp.placed) = 1
    /\ LastPlaced.row = 0
    /\ TotalPieces(Board) = BOARD_ROWS * BOARD_COLS
    /\ GameOver
    /\ moves = 1

(* The cells where two boards differ. *)
ChangedCells(before, after) ==
    {rc \in Cells : before[rc[1]][rc[2]] # after[rc[1]][rc[2]]}

(* C31: in two-player mode, in games played from a new game by move        *)
(* requests only, in every state with GameOver = false the number of       *)
(* First pieces minus the number of Second pieces is 0 when CurrentPlayer  *)
(* is First and 1 when it is Second; and each accepted move changes        *)
(* exactly one cell, from empty to the CurrentPlayer before the move.      *)
C31_TwoPlayerAlternation ==
    /\ []((Mode = GAME_MODE_TWO_PLAYER /\ ~GameOver)
            => Pieces(Board, PLAYER_1) - Pieces(Board, PLAYER_2)
                 = (IF CurrentPlayer = PLAYER_1 THEN 0 ELSE 1))
    /\ [][(Mode = GAME_MODE_TWO_PLAYER /\ lastOp'.op \in MoveOps
            /\ Len(lastOp'.placed) > 0)
            => /\ Cardinality(ChangedCells(Board, Board')) = 1
               /\ \A rc \in ChangedCells(Board, Board') :
                     /\ Board[rc[1]][rc[2]] = CELL_EMPTY
                     /\ Board'[rc[1]][rc[2]] = CurrentPlayer]_vars

(* Two accepted moves into an empty two-player board, the second by        *)
(* Second through the form handler: one piece each and First to move.      *)
C31_Witness ==
    /\ Mode = GAME_MODE_TWO_PLAYER
    /\ ~GameOver
    /\ moves = 2
    /\ lastOp.op = "handleMove"
    /\ Len(lastOp.placed) = 1
    /\ LastPlaced.side = PLAYER_2
    /\ Pieces(Board, PLAYER_1) = 1
    /\ Pieces(Board, PLAYER_2) = 1
    /\ CurrentPlayer = PLAYER_1


(* C32: in the AI mode, when the accepted move of First through the form   *)
(* handler ends a game in progress, by a run of 4 through its cell or by   *)
(* filling the board, no automated reply is made: the selector is not      *)
(* called, the request leaves exactly one new piece on the board, and      *)
(* Winner is First after a run and Draw after a full board.                *)
C32_NoReplyAfterGameEnd ==
    [][(/\ Mode = GAME_MODE_AI /\ ~GameOver /\ CurrentPlayer = PLAYER_1
        /\ lastOp'.op = "handleMove"
        /\ Len(lastOp'.placed) > 0
        /\ With(BoardAfterPlacement(Board', lastOp'.placed, 1), LAMBDA b :
              \/ InRunOf4(b, lastOp'.placed[1].row, lastOp'.placed[1].col)
              \/ AllCellsOccupied(b)))
        => /\ Len(lastOp'.placed) = 1
           /\ lastOp'.placed[1].side = PLAYER_1
           /\ ~lastOp'.sel.called
           /\ TotalPieces(Board') = TotalPieces(Board) + 1
           /\ ChangedCells(Board, Board')
                 = {<<lastOp'.placed[1].row, lastOp'.placed[1].col>>}
           /\ GameOver'
           /\ Winner' = (IF InRunOf4(Board', lastOp'.placed[1].row,
                                     lastOp'.placed[1].col)
                         THEN PLAYER_1 ELSE PLAYER_DRAW)]_vars

(* Both endings against the AI through the form handler: First has just    *)
(* completed a run of 4 on a board with room left, or First has just       *)
(* placed the 42nd piece without a run; in both the request placed one     *)
(* piece and the selector was not called.                                  *)
C32_Witness ==
    /\ Mode = GAME_MODE_AI
    /\ lastOp.op = "handleMove"
    /\ Len(lastOp.placed) = 1
    /\ LastPlaced.side = PLAYER_1
    /\ InRunOf4(Board, LastPlaced.row, LastPlaced.col)
    /\ ~AllCellsOccupied(Board)
    /\ ~lastOp.sel.called
    /\ GameOver
    /\ Winner = PLAYER_1
    /\ moves = 1

C32_WitnessDraw ==
    /\ Mode = GAME_MODE_AI
    /\ lastOp.op = "handleMove"
    /\ Len(lastOp.placed) = 1
    /\ LastPlaced.side = PLAYER_1
    /\ AllCellsOccupied(Board)
    /\ ~InRunOf4(Board, LastPlaced.row, LastPlaced.col)
    /\ ~lastOp.sel.called
    /\ GameOver
    /\ Winner = PLAYER_DRAW

(* C36: a new-game request through handleNewGame with an empty mode value *)
(* keeps the Mode of the game in progress, whatever it is, and resets      *)
(* Board, CurrentPlayer, GameOver and Winner to their initial values.      *)
C36_EmptyModeKeepsMode ==
    [][(lastOp'.op = "handleNewGame" /\ lastOp'.mode = "")
         => /\ Mode' = Mode
            /\ Board' = initializeGame.Board
            /\ CurrentPlayer' = initializeGame.CurrentPlayer
            /\ GameOver' = initializeGame.GameOver
            /\ Winner' = initializeGame.Winner]_vars

(* handleNewGame has just been given an empty mode value in a game whose   *)
(* Mode is the unrecognized value "solo": the Mode is kept and the other   *)
(* fields are those of a new game.                                         *)
C36_Witness ==
    /\ lastOp.op = "handleNewGame"
    /\ lastOp.mode = ""
    /\ Mode = "solo"
    /\ Board = EmptyBoard
    /\ CurrentPlayer = PLAYER_1
    /\ ~GameOver
    /\ Winner = 0

(* The columns getBestMove returns on the board of the state, over the    *)
(* values rand.Intn can return and over the fields of the record other     *)
(* than Board.                                                             *)
SelectedCols ==
    {getBestMove(Game, rnd).col : rnd \in RandInputs}
    \cup {getBestMove([Game EXCEPT !.CurrentPlayer = PLAYER_1 + PLAYER_2 - @,
                                    !.GameOver = ~@,
                                    !.Mode = IF @ = GAME_MODE_AI
                                             THEN GAME_MODE_TWO_PLAYER
                                             ELSE GAME_MODE_AI], 0).col}

(* C34: the selection is a function of the board whenever rule 1, 2 or 3   *)
(* applies.  On a board where some column gives either side an immediate   *)
(* win, or where column 3 has room, getBestMove returns one and the same   *)
(* column whatever rand.Intn returns and whatever the other fields of the  *)
(* record are; so the column depends on the random choice only when        *)
(* neither side has an immediate win and column 3 is full.                 *)
C34_SelectionDeterministic ==
    (\/ HasRoom(Board, 3)
     \/ WinningCols(Board, PLAYER_2) # {}
     \/ WinningCols(Board, PLAYER_1) # {})
      => Cardinality(SelectedCols) = 1

(* Column 3 is full, several columns have room and Second has a winning   *)
(* column: its lowest winning column is selected whatever rand.Intn        *)
(* returns.                                                                *)
C34_Witness ==
    /\ ~HasRoom(Board, 3)
    /\ Cardinality({c \in Cols : HasRoom(Board, c)}) >= 2
    /\ WinningCols(Board, PLAYER_2) # {}
    /\ SelectedCols = {Lowest(WinningCols(Board, PLAYER_2))}

(* Column 3 is full and neither side has a winning column: the column      *)
(* selected follows the value rand.Intn returns.                           *)
C34_WitnessRandom ==
    /\ ~HasRoom(Board, 3)
    /\ WinningCols(Board, PLAYER_2) = {}
    /\ WinningCols(Board, PLAYER_1) = {}
    /\ Cardinality(SelectedCols) >= 2

(* The topmost occupied cell of each column that holds a piece. *)
TopCells(board) ==
    {rc \in Cells :
       /\ board[rc[1]][rc[2]] # CELL_EMPTY
       /\ \A r \in Rows : r < rc[1] => board[r][rc[2]] = CELL_EMPTY}

(* No empty cell has an occupied cell above it. *)
Gravity(board) ==
    \A rc \in Cells :
       (board[rc[1]][rc[2]] = CELL_EMPTY /\ rc[1] > 0)
         => board[rc[1] - 1][rc[2]] = CELL_EMPTY

(* The board and the boards one piece of either side away from it: the     *)
(* piece dropped in a column with room.                                    *)
DroppedBoards(board) ==
    {board}
    \cup {[board EXCEPT ![LandingRow(board, c)][c] = side] :
            c \in {k \in Cols : HasRoom(board, k)},
            side \in {PLAYER_1, PLAYER_2}}

(* C35: the inline win check of the earlier drafts, which counts the       *)
(* vertical run only downward from the given cell, returns the same        *)
(* result as the checkDirection-based checkForWin on every board that      *)
(* satisfies the gravity invariant, for every cell that is the topmost     *)
(* occupied cell of its column; checked on the board of every state and    *)
(* on the boards one dropped piece away from it.                           *)
C35_DraftCheckAgrees ==
    \A b \in DroppedBoards(Board) :
       Gravity(b)
         => \A rc \in TopCells(b) :
               checkForWinDraft(b, rc[1], rc[2]) = checkForWin(b, rc[1], rc[2])

(* A column holds four pieces of one side on top of each other: at its     *)
(* topmost cell both checks return that side, and at the cell below it,    *)
(* which has a piece above, the draft returns 0 and checkForWin the side.  *)
C35_Witness ==
    /\ Gravity(Board)
    /\ \E rc \in TopCells(Board) :
          /\ rc[1] + 3 \in Rows
          /\ \A k \in 1 .. 3 : Board[rc[1] + k][rc[2]] = Board[rc[1]][rc[2]]
          /\ checkForWinDraft(Board, rc[1], rc[2]) = Board[rc[1]][rc[2]]
          /\ checkForWin(Board, rc[1], rc[2]) = Board[rc[1]][rc[2]]
          /\ checkForWinDraft(Board, rc[1] + 1, rc[2]) = 0
          /\ checkForWin(Board, rc[1] + 1, rc[2]) = Board[rc[1]][rc[2]]

(* C33: a state snapshot produced by getGameStateAPI or serveIndex while   *)
(* another request is running the AI selector never contains a probe       *)
(* piece: every non-empty cell of a snapshot is a piece placed by an       *)
(* accepted move.                                                          *)
C33_SnapshotHasNoProbe ==
    snapshot.taken
      => \A rc \in Cells :
            snapshot.game.Board[rc[1]][rc[2]] # CELL_EMPTY
              => snapshot.placed[rc[1]][rc[2]]
                   = snapshot.game.Board[rc[1]][rc[2]]

====
